---- MODULE Spec2Model ----
(***************************************************************************)
(* A model of wxnat/browser.py: the XNATBrowserPanel (session handling,    *)
(* the tree browser, file download) and the XNATBrowserDialog.             *)
(*                                                                         *)
(* Six specifications share the variables:                                *)
(*   Spec          the session machinery (connect thread, marshalled       *)
(*                 callbacks, the connecting dialog, end of session);      *)
(*   SpecKnown     the same, for a panel given known hosts and accounts;   *)
(*   SpecTree      the tree browser of a connected panel;                  *)
(*   SpecSelect    selecting items in an opened tree;                      *)
(*   SpecDownload  DownloadFile and the dialog's Download button;          *)
(*   SpecRefresh   the tree browser with its filters and refreshes.        *)
(***************************************************************************)
EXTENDS Integers, Sequences, FiniteSets, TLC

VARIABLES
    \* ---- construction arguments (kept to state the frame properties)
    ctorHosts,      \* the knownHosts argument of __init__
    ctorAccounts,   \* the knownAccounts argument of __init__
    \* ---- XNATBrowserPanel fields and widgets
    session,        \* self.__session: NoSession, or the id of the session
    knownHosts,     \* the auto-complete options of the host field
    knownAccounts,  \* self.__knownAccounts
    hostField,      \* value of self.__host
    userField,      \* value of self.__username
    passField,      \* value of self.__password
    connectLabel,   \* label of self.__connect
    statusColour,   \* foreground colour of self.__status
    projItems,      \* items of the self.__project drop down box
    items,          \* the tree browser: a sequence of tree items
    selection,      \* the selected tree items (indices into items)
    focused,        \* the focused tree item, 0 when there is none
    info,           \* the object shown in the information grid, 0 if cleared
    filterType,     \* self.__filterType
    subjFilter,     \* value of self.__subjFilter
    expFilter,      \* value of self.__expFilter
    \* ---- __startSession: the connecting dialog and the connect threads
    mainPc,         \* "idle": in the main loop; "dialog": in runWithBounce
    cur,            \* the attempt whose connecting dialog is open
    caller,         \* who called __startSession: "api" or "button"
    dlgCancel,      \* the user pressed Cancel on the connecting dialog
    threads,        \* attempt -> the state of its connect() thread
    cancelled,      \* attempt -> cancelled[0] of its closure
    pending,        \* callbacks queued by wx.CallAfter, not yet run
    nAttempts,      \* number of __startSession calls so far
    serverOpen,     \* sessions open on the server side
    errShown,       \* attempts whose connection error dialog was shown
    \* ---- DownloadFile and XNATBrowserDialog.__onDownload
    fs,             \* local paths that exist
    dl,             \* the running DownloadFile call, or the last one made
                    \* by the handler that ran last
    dd,             \* the running __onDownload call, or the last one if it
                    \* was the handler that ran last
    \* ---- observation
    lastOp          \* the last operation, its inputs and its results

sessVars == <<session, knownHosts, knownAccounts, hostField, userField,
              passField, connectLabel, statusColour, projItems>>
ctorVars == <<ctorHosts, ctorAccounts>>
treeVars == <<items, selection, focused, info>>
filtVars == <<filterType, subjFilter, expFilter>>
connVars == <<mainPc, cur, caller, dlgCancel, threads, cancelled, pending,
              nAttempts, serverOpen, errShown>>
downVars == <<fs, dl, dd>>
vars == <<ctorVars, sessVars, treeVars, filtVars, connVars, downVars, lastOp>>

None == "None"

\* self.__session is None
NoSession == 0

\* an optional argument: not given (None), or given with a value
NotGiven  == <<>>
Given(v)  == <<v>>

(***************************************************************************)
(* Bounds.                                                                 *)
(***************************************************************************)
\* __startSession calls in one behaviour
MaxAttempts == 2

(***************************************************************************)
(* Hosts, URLs and the servers.  A host string is kept as its protocol     *)
(* prefix and the rest, so that startswith and '+' are what they are in    *)
(* the code.                                                               *)
(***************************************************************************)
Host(proto, name) == [proto |-> proto, name |-> name]

Central == "central.xnat.org"
Legacy  == "legacy.xnat.org"
Nowhere == "not.a.xnat.server"

HostNames == {Central, Legacy, Nowhere}

\* what the user may type into the host field: a name without protocol (a
\* successful login puts the URL, protocol and all, into the field)
HostInputs == {Host("", n) : n \in HostNames}

\* credentials the user may type: '' is an empty field
CredInputs == {<<"", "">>, <<"bah", "humbug">>}

\* the servers: Central answers on https only, Legacy on http only,
\* Nowhere does not exist; both servers take anonymous logins only
Reachable(url) ==
    \/ url = Host("https://", Central)
    \/ url = Host("http://",  Legacy)

\* xnat.connect(url, user, password) returns a session (TRUE) or raises
XnatConnectOK(url, user, password) ==
    /\ Reachable(url)
    /\ user = None
    /\ password = None

\* ids of the projects of a session (session.projects.listing)
ProjectIds == <<"p1">>

(***************************************************************************)
(* The XNAT hierarchy tables.                                              *)
(***************************************************************************)
XNAT_HIERARCHY ==
    [project     |-> <<"subjects", "resources">>,
     projects    |-> <<"subjects", "resources">>,
     subject     |-> <<"experiments", "resources">>,
     subjects    |-> <<"experiments", "resources">>,
     experiment  |-> <<"assessors", "scans", "resources">>,
     experiments |-> <<"assessors", "scans", "resources">>,
     assessor    |-> <<"scans", "resources">>,
     assessors   |-> <<"scans", "resources">>,
     scan        |-> <<"resources">>,
     scans       |-> <<"resources">>,
     resource    |-> <<"files">>,
     resources   |-> <<"files">>]

\* the attribute holding the name of an object of each level; there is no
\* entry for 'assessor'
XNAT_NAME_ATT ==
    [project    |-> "name",
     subject    |-> "label",
     experiment |-> "label",
     scan       |-> "type",
     resource   |-> "label",
     file       |-> "id"]

\* catt[:-1]
Singular ==
    [subjects    |-> "subject",
     experiments |-> "experiment",
     assessors   |-> "assessor",
     scans       |-> "scan",
     resources   |-> "resource",
     files       |-> "file"]

\* image list indices set up by __init__ (a list index, not a magnitude)
fileImageId           == "image0"
unloadedFolderImageId == "image1"
loadedFolderImageId   == "image2"

(***************************************************************************)
(* The objects held by the server.  Text attributes are sequences of       *)
(* characters; the id of a file is a path, sequence of path components.    *)
(* Scan 8 and resource 9 are siblings with the same id and both have       *)
(* children, experiment 6 has an assessor, files 10 and 12 have the same   *)
(* base name.                                                              *)
(***************************************************************************)
XObj(level, id, name, parent) ==
    [level |-> level, id |-> id, name |-> name, parent |-> parent]

Objects ==
    <<XObj("project",    "p1", <<"p","r","j">>,     0),
      XObj("subject",    "s1", <<"s","u","b","A">>, 1),
      XObj("subject",    "s2", <<"c","t","l","B">>, 1),
      XObj("resource",   "r1", <<"d","o","c">>,     1),
      XObj("experiment", "e1", <<"m","r","1">>,     2),
      XObj("experiment", "e2", <<"p","e","t">>,     3),
      XObj("assessor",   "a1", <<"f","s">>,         6),
      XObj("scan",       "1",  <<"T","1">>,         5),
      XObj("resource",   "1",  <<"D","C","M">>,     5),
      XObj("file",       <<"d1", "a.nii">>, <<"a">>, 4),
      XObj("file",       <<"b.nii">>,       <<"b">>, 4),
      XObj("file",       <<"d2", "a.nii">>, <<"a">>, 9),
      XObj("scan",       "2",  <<"T","2">>,         6),
      XObj("resource",   "r2", <<"N","I","I">>,     8)>>

ObjIds == 1 .. Len(Objects)

\* session.projects[project]
ProjectObj(pid) == CHOOSE o \in ObjIds :
    Objects[o].level = "project" /\ Objects[o].id = pid

\* fobj.uri
Uri(o) == <<"uri", o>>

\* the objects from n on that have the given level and parent
RECURSIVE SelectFrom(_, _, _)
SelectFrom(n, lvl, par) ==
    IF n > Len(Objects) THEN <<>>
    ELSE (IF Objects[n].level = lvl /\ Objects[n].parent = par
          THEN <<n>> ELSE <<>>) \o SelectFrom(n + 1, lvl, par)

\* getattr(obj, catt).listing : the children of obj of one kind, in the
\* server's order
Listing(obj, catt) == SelectFrom(1, Singular[catt], obj)

\* getattr(child, XNAT_NAME_ATT[catt])
NameOf(o, catt) ==
    IF XNAT_NAME_ATT[catt] = "id" THEN Objects[o].id ELSE Objects[o].name

\* LABELS[catt] for the singular level names
LABELS ==
    [project    |-> "Project",
     subject    |-> "Subject",
     experiment |-> "Experiment",
     scan       |-> "Scan",
     assessor   |-> "Assessor",
     resource   |-> "Resource",
     file       |-> "File"]

(***************************************************************************)
(* Filter patterns.  re.search with IGNORECASE over the patterns made of   *)
(* literal characters, '.' and a leading '^'; fnmatch over the patterns    *)
(* made of literal characters, '*' and '?'.                                *)
(***************************************************************************)
LowerMap == [A |-> "a", B |-> "b", T |-> "t", D |-> "d", C |-> "c", M |-> "m",
             N |-> "n", I |-> "i", S |-> "s", U |-> "u", E |-> "e"]

Lower(c) == IF c \in DOMAIN LowerMap THEN LowerMap[c] ELSE c

\* pattern.strip() == ''
StripIsEmpty(pattern) == \A k \in 1 .. Len(pattern) : pattern[k] = " "

MatchAt(p, n, i) ==
    /\ i + Len(p) - 1 <= Len(n)
    /\ \A k \in 1 .. Len(p) :
          p[k] = "." \/ Lower(p[k]) = Lower(n[i + k - 1])

\* re.search(pattern, name, flags=re.IGNORECASE) is not None
ReSearch(pattern, name) ==
    IF pattern # <<>> /\ pattern[1] = "^"
    THEN MatchAt(Tail(pattern), name, 1)
    ELSE \E i \in 1 .. Len(name) + 1 : MatchAt(pattern, name, i)

\* fnmatch.fnmatch(name, pattern)
RECURSIVE FnMatch(_, _)
FnMatch(name, pattern) ==
    IF pattern = <<>> THEN name = <<>>
    ELSE IF pattern[1] = "*"
         THEN \/ FnMatch(name, Tail(pattern))
              \/ name # <<>> /\ FnMatch(Tail(name), pattern)
    ELSE /\ name # <<>>
         /\ pattern[1] = "?" \/ pattern[1] = name[1]
         /\ FnMatch(Tail(name), Tail(pattern))

\* what __filterItem reads from the panel: self.__filterType and the
\* values of the two filter fields
Filters ==
    [type |-> filterType, subject |-> subjFilter, experiment |-> expFilter]

\* __filterItem with the pattern compared to '' as it is typed
FilterItemUnstripped(fil, level, name) ==
    LET pattern == IF level = "subject" THEN fil.subject
                   ELSE IF level = "experiment" THEN fil.experiment
                   ELSE <<>>
    IN  IF pattern = <<>> THEN FALSE
        ELSE IF fil.type = "regexp" THEN ~ ReSearch(pattern, name)
        ELSE IF fil.type = "glob" THEN ~ FnMatch(name, pattern)
        ELSE FALSE

\* XNATBrowserPanel.__filterItem on a panel whose filters are fil: TRUE if
\* the item is to be left out
FilterItem(fil, level, name) ==
    LET pattern == IF level = "subject" THEN fil.subject
                   ELSE IF level = "experiment" THEN fil.experiment
                   ELSE <<>>
    IN  IF StripIsEmpty(pattern) THEN FALSE
        ELSE IF fil.type = "regexp" THEN ~ ReSearch(pattern, name)
        ELSE IF fil.type = "glob" THEN ~ FnMatch(name, pattern)
        ELSE FALSE

(***************************************************************************)
(* The tree browser.  A tree item is its index in items; the children of   *)
(* an item are the items that name it as parent, in index order.           *)
(***************************************************************************)
TreeItem(obj, level, parent, image, text) ==
    [obj |-> obj, level |-> level, parent |-> parent, image |-> image,
     text |-> text, expanded |-> FALSE]

\* browser.GetChildrenCount(item), all descendants
RECURSIVE IsUnder(_, _, _)
IsUnder(its, j, i) ==
    /\ j # 0
    /\ its[j].parent # 0
    /\ its[j].parent = i \/ IsUnder(its, its[j].parent, i)

GetChildrenCount(its, i) ==
    Cardinality({j \in 1 .. Len(its) : IsUnder(its, j, i)})

\* the (catt, child) pairs __expandTreeItem goes through, in its order
RECURSIVE ChildPairs(_, _, _)
ChildPairs(obj, catts, k) ==
    IF k > Len(catts) THEN <<>>
    ELSE LET lst == Listing(obj, catts[k])
         IN  [n \in 1 .. Len(lst) |->
                 [catt |-> Singular[catts[k]], child |-> lst[n]]]
             \o ChildPairs(obj, catts, k + 1)

\* childItems[child.id] = (child, childItem)
DictPut(d, key, val) == {e \in d : e.id # key} \cup {val}

\* the loop body of __expandTreeItem over the pairs from k on.  raised is
\* TRUE when XNAT_NAME_ATT[catt] raised KeyError: the loop stops there.
RECURSIVE AddChildren(_, _, _, _, _, _)
AddChildren(fil, its, childItems, pairs, k, treeItem) ==
    IF k > Len(pairs)
    THEN [items |-> its, childItems |-> childItems, raised |-> FALSE]
    ELSE LET catt  == pairs[k].catt
             child == pairs[k].child
         IN  IF catt \notin DOMAIN XNAT_NAME_ATT
             THEN [items |-> its, childItems |-> childItems, raised |-> TRUE]
             ELSE IF FilterItem(fil, catt, NameOf(child, catt))
             THEN AddChildren(fil, its, childItems, pairs, k + 1, treeItem)
             ELSE LET image == IF catt = "file" THEN fileImageId
                               ELSE unloadedFolderImageId
                      new   == TreeItem(child, catt, treeItem, image,
                                        <<LABELS[catt], NameOf(child, catt)>>)
                  IN  AddChildren(
                          fil, Append(its, new),
                          DictPut(childItems, Objects[child].id,
                                  [id   |-> Objects[child].id,
                                   obj  |-> child,
                                   item |-> Len(its) + 1]),
                          pairs, k + 1, treeItem)

\* XNATBrowserPanel.__expandTreeItem on a panel whose filters are fil
ExpandTreeItem(fil, its, obj, level, treeItem) ==
    LET its1 == IF level # "file"
                THEN [its EXCEPT ![treeItem].image = loadedFolderImageId]
                ELSE its
    IN  AddChildren(fil, its1, {}, ChildPairs(obj, XNAT_HIERARCHY[level], 1),
                    1, treeItem)

(***************************************************************************)
(* Construction.                                                           *)
(***************************************************************************)
\* known hosts and accounts a caller may pass to __init__
CtorArgs ==
    {[hosts    |-> NotGiven, accounts |-> NotGiven],
     [hosts    |-> Given(<<Host("", Nowhere)>>),
      accounts |-> Given([h \in {Host("", Nowhere)} |-> <<"bah", "humbug">>])]}

\* if knownHosts is None: knownHosts = []; self.__host.AutoComplete(knownHosts)
InitKnownHosts(arg) == IF Len(arg) = 0 THEN <<>> ELSE arg[1]

InitKnownAccountsDropInvalid(arg) ==
    IF Len(arg) = 0 THEN <<>>
    ELSE [h \in {k \in DOMAIN arg[1] :
                    \E u \in {"https://", "http://"} :
                        XnatConnectOK(Host(u, k.name), arg[1][k][1],
                                      arg[1][k][2])} |-> arg[1][h]]

\* if knownAccounts is None: knownAccounts = {};
\* self.__knownAccounts = dict(knownAccounts)
InitKnownAccounts(arg) ==
    IF Len(arg) = 0 THEN <<>> ELSE [h \in DOMAIN arg[1] |-> arg[1][h]]

\* the connect() thread of an attempt that has not been made.  target
\* observes whether some URL of the attempt takes the credentials given.
NoThread ==
    [pc |-> "none", hosts |-> <<>>, idx |-> 0, user |-> None,
     password |-> None, connected |-> FALSE, post |-> "none",
     url |-> Host("", ""), target |-> FALSE]

\* the effect of __endSession on the widgets (all but the session itself)
EndSessionWidgets ==
    /\ connectLabel' = "Connect"
    /\ statusColour' = "#ff0000"
    /\ projItems'    = <<>>
    /\ items'        = <<>>
    /\ selection'    = {}
    /\ focused'      = 0
    /\ info'         = 0

\* __endSession that gives up when session.disconnect() raises
DoEndSessionUnlessRaised(raises) ==
    IF session # NoSession /\ raises
    THEN UNCHANGED <<session, serverOpen, connectLabel, statusColour,
                     projItems, items, selection, focused, info>>
    ELSE /\ session'    = NoSession
         /\ serverOpen' = serverOpen \ {session}
         /\ EndSessionWidgets

\* XNATBrowserPanel.__endSession.  raises: session.disconnect() raised, and
\* the server side of the session stays open
DoEndSession(raises) ==
    /\ session'    = NoSession
    /\ serverOpen' = IF session # NoSession /\ ~ raises
                     THEN serverOpen \ {session} ELSE serverOpen
    /\ EndSessionWidgets

endVars == <<session, serverOpen, connectLabel, statusColour, projItems,
             items, selection, focused, info>>

\* the state of the controls that does not depend on the arguments
InitWidgets ==
    /\ session      = NoSession
    /\ hostField    = Host("", "")
    /\ userField    = ""
    /\ passField    = ""
    /\ connectLabel = "Connect"
    /\ statusColour = "#ff0000"
    /\ projItems    = <<>>
    /\ items        = <<>>
    /\ selection    = {}
    /\ focused      = 0
    /\ info         = 0
    /\ subjFilter   = <<>>
    /\ expFilter    = <<>>

InitConn ==
    /\ mainPc     = "idle"
    /\ cur        = 0
    /\ caller     = "none"
    /\ dlgCancel  = FALSE
    /\ threads    = [a \in 1 .. MaxAttempts |-> NoThread]
    /\ cancelled  = [a \in 1 .. MaxAttempts |-> FALSE]
    /\ pending    = {}
    /\ nAttempts  = 0
    /\ serverOpen = {}
    /\ errShown   = {}

NoDownload == [pc |-> "none"]

InitDown ==
    /\ fs = {}
    /\ dl = NoDownload
    /\ dd = NoDownload

\* XNATBrowserPanel.__init__
Init ==
    /\ \E a \in CtorArgs :
          /\ ctorHosts     = a.hosts
          /\ ctorAccounts  = a.accounts
          /\ knownHosts    = InitKnownHosts(a.hosts)
          /\ knownAccounts = InitKnownAccounts(a.accounts)
    /\ filterType = "regexp"
    /\ InitWidgets
    /\ InitConn
    /\ InitDown
    /\ lastOp = [op |-> "init"]

(***************************************************************************)
(* Starting and ending a session.                                          *)
(***************************************************************************)
\* the URLs with http tried before https
HostsToTryHttpFirst(host) ==
    IF host.proto = "http://" \/ host.proto = "https://"
    THEN <<host>>
    ELSE <<Host("http://", host.name), Host("https://", host.name)>>

\* the URLs __startSession tries, in order
HostsToTry(host) ==
    IF host.proto = "http://" \/ host.proto = "https://"
    THEN <<host>>
    ELSE <<Host("https://", host.name), Host("http://", host.name)>>

\* some URL tried for host takes the credentials
CanConnect(host, username, password) ==
    \E i \in 1 .. Len(HostsToTry(host)) :
        XnatConnectOK(HostsToTry(host)[i], username, password)

\* __startSession up to the start of the connect thread and the opening of
\* the connecting dialog
BeginStartSession(host, username, password, who) ==
    /\ mainPc = "idle"
    /\ nAttempts < MaxAttempts
    /\ IF session # NoSession
       THEN \E raises \in BOOLEAN : DoEndSession(raises)
       ELSE UNCHANGED endVars
    /\ nAttempts' = nAttempts + 1
    /\ cur'       = nAttempts + 1
    /\ caller'    = who
    /\ dlgCancel' = FALSE
    /\ mainPc'    = "dialog"
    /\ threads'   = [threads EXCEPT ![nAttempts + 1] =
                        [pc |-> "connect", hosts |-> HostsToTry(host),
                         idx |-> 1, user |-> username,
                         password |-> password, connected |-> FALSE,
                         post |-> "none", url |-> Host("", ""),
                         target |-> CanConnect(host, username, password)]]
    /\ cancelled' = [cancelled EXCEPT ![nAttempts + 1] = FALSE]
    /\ lastOp'    = [op |-> "startSession", att |-> nAttempts + 1]
    /\ UNCHANGED <<ctorVars, knownHosts, knownAccounts, hostField, userField,
                   passField, filtVars, pending, errShown, downVars>>

\* a direct call of __startSession(host, username, password)
StartSession(host, creds) ==
    BeginStartSession(host,
                      IF creds[1] = "" THEN None ELSE creds[1],
                      IF creds[2] = "" THEN None ELSE creds[2],
                      "api")

\* a direct call of __endSession()
EndSession ==
    /\ mainPc = "idle"
    /\ \E raises \in BOOLEAN : DoEndSession(raises)
    /\ lastOp' = [op |-> "endSession"]
    /\ UNCHANGED <<ctorVars, knownHosts, knownAccounts, hostField, userField,
                   passField, filtVars, mainPc, cur, caller, dlgCancel,
                   threads, cancelled, pending, nAttempts, errShown, downVars>>

\* __onConnect while a session is active: the session is ended
OnConnectEnd ==
    /\ mainPc = "idle"
    /\ session # NoSession
    /\ \E raises \in BOOLEAN : DoEndSession(raises)
    /\ lastOp' = [op |-> "onConnect.end"]
    /\ UNCHANGED <<ctorVars, knownHosts, knownAccounts, hostField, userField,
                   passField, filtVars, mainPc, cur, caller, dlgCancel,
                   threads, cancelled, pending, nAttempts, errShown, downVars>>

\* __onConnect while no session is active, up to the connecting dialog
OnConnectStart ==
    /\ session = NoSession
    /\ BeginStartSession(hostField,
                         IF userField = "" THEN None ELSE userField,
                         IF passField = "" THEN None ELSE passField,
                         "button")

\* XNATBrowserPanel.__onHost: the user enters a host name
OnHost(host) ==
    /\ mainPc = "idle"
    /\ hostField' = host
    /\ LET acct == IF host \in DOMAIN knownAccounts
                   THEN knownAccounts[host] ELSE <<None, None>>
       IN  /\ userField' = IF acct[1] # None THEN acct[1] ELSE userField
           /\ passField' = IF acct[2] # None THEN acct[2] ELSE passField
    /\ UNCHANGED <<ctorVars, session, knownHosts, knownAccounts, connectLabel,
                   statusColour, projItems, treeVars, filtVars, connVars,
                   downVars, lastOp>>

\* the user types a user name and a password
TypeCredentials(creds) ==
    /\ mainPc = "idle"
    /\ userField' = creds[1]
    /\ passField' = creds[2]
    /\ UNCHANGED <<ctorVars, session, knownHosts, knownAccounts, hostField,
                   connectLabel, statusColour, projItems, treeVars, filtVars,
                   connVars, downVars, lastOp>>

\* a connect() thread that has returned: its locals are gone, what is kept
\* is whether xnat.connect gave it a session
Ended(t) ==
    [NoThread EXCEPT !.pc = "done", !.connected = t.connected,
                     !.target = t.target]

\* one pass of the loop of connect(): xnat.connect on the next URL, and the
\* reads of cancelled[0] that follow it
ThreadConnect(a) ==
    LET t   == threads[a]
        url == t.hosts[t.idx]
    IN  /\ t.pc = "connect"
        /\ IF XnatConnectOK(url, t.user, t.password)
           THEN /\ serverOpen' = serverOpen \cup {a}
                /\ threads' = [threads EXCEPT ![a] =
                      IF cancelled[a]
                      THEN Ended([t EXCEPT !.connected = TRUE])
                      ELSE [t EXCEPT !.connected = TRUE, !.url = url,
                                     !.pc = "post", !.post = "success"]]
           ELSE /\ UNCHANGED serverOpen
                /\ threads' = [threads EXCEPT ![a] =
                      IF cancelled[a] THEN Ended(t)
                      ELSE IF t.idx < Len(t.hosts)
                      THEN [t EXCEPT !.idx = t.idx + 1]
                      ELSE [t EXCEPT !.pc = "post", !.post = "failure"]]
        /\ UNCHANGED <<ctorVars, sessVars, treeVars, filtVars, mainPc, cur,
                       caller, dlgCancel, cancelled, pending, nAttempts,
                       errShown, downVars, lastOp>>

\* wx.CallAfter(success, session, host) or wx.CallAfter(failure, error)
ThreadPost(a) ==
    LET t == threads[a]
    IN  /\ t.pc = "post"
        /\ pending' = pending \cup
                         {[kind |-> t.post, att |-> a, url |-> t.url]}
        /\ threads' = [threads EXCEPT ![a] = Ended(t)]
        /\ UNCHANGED <<ctorVars, sessVars, treeVars, filtVars, mainPc, cur,
                       caller, dlgCancel, cancelled, nAttempts, serverOpen,
                       errShown, downVars, lastOp>>

\* the user presses Cancel on the connecting dialog
UserCancel ==
    /\ mainPc = "dialog"
    /\ ~ dlgCancel
    /\ dlgCancel' = TRUE
    /\ UNCHANGED <<ctorVars, sessVars, treeVars, filtVars, mainPc, cur,
                   caller, threads, cancelled, pending, nAttempts,
                   serverOpen, errShown, downVars, lastOp>>

\* the main thread runs a callback queued by wx.CallAfter: success(session,
\* host) or failure(error) of __startSession
Deliver(cb) ==
    /\ cb \in pending
    /\ pending' = pending \ {cb}
    /\ IF cb.kind = "success"
       THEN /\ session'      = cb.att
            /\ hostField'    = cb.url
            /\ connectLabel' = "Disconnect"
            /\ statusColour' = "#00ff00"
            /\ UNCHANGED errShown
       ELSE /\ errShown' = errShown \cup {cb.att}
            /\ UNCHANGED <<session, hostField, connectLabel, statusColour>>
    /\ lastOp' = [op |-> "callback", att |-> cb.att, kind |-> cb.kind,
                  url |-> cb.url]
    /\ UNCHANGED <<ctorVars, knownHosts, knownAccounts, userField, passField,
                   projItems, treeVars, filtVars, mainPc, cur, caller,
                   dlgCancel, threads, cancelled, nAttempts, serverOpen,
                   downVars>>

\* XNATBrowserPanel.__onTreeSelect: the information grid shows the object
OnTreeSelectInfo(obj) == obj

\* the effect of __onProject on the tree, for the project of the given id
ShowProject(pid) ==
    /\ items' = <<TreeItem(ProjectObj(pid), "project", 0,
                           unloadedFolderImageId, <<LABELS.project, pid>>)>>
    /\ selection' = {}
    /\ focused'   = 0
    /\ info'      = OnTreeSelectInfo(ProjectObj(pid))

\* runWithBounce returns (the thread has ended, or the dialog was
\* cancelled), and __startSession returns; called from __onConnect, the
\* project list is filled and the first project shown on success.
\* sel is the selection of the drop down box after SetItems: item 1, or
\* 0 for wx.NOT_FOUND, where __onProject fails and the tree stays empty.
\* The dialog's own state (cur, caller, dlgCancel) ends with the call.
DialogReturn ==
    /\ mainPc = "dialog"
    /\ \E fin \in BOOLEAN :
          /\ fin => threads[cur].pc = "done"
          /\ ~ fin => dlgCancel
          /\ cancelled' = [cancelled EXCEPT ![cur] = ~ fin]
          /\ LET result == fin /\ session # NoSession
             IN  /\ lastOp' = [op |-> "startReturn", att |-> cur,
                               result |-> result, finished |-> fin,
                               connected |-> threads[cur].connected,
                               target |-> threads[cur].target]
                 /\ IF caller = "button" /\ result
                    THEN /\ projItems' = ProjectIds
                         /\ \E sel \in 0 .. 1 :
                               IF sel = 0 THEN UNCHANGED treeVars
                               ELSE ShowProject(ProjectIds[sel])
                    ELSE UNCHANGED <<projItems, treeVars>>
    /\ mainPc'    = "idle"
    /\ cur'       = 0
    /\ caller'    = "none"
    /\ dlgCancel' = FALSE
    /\ UNCHANGED <<ctorVars, session, knownHosts, knownAccounts, hostField,
                   userField, passField, connectLabel, statusColour, filtVars,
                   threads, pending, nAttempts, serverOpen, errShown,
                   downVars>>

\* XNATBrowserPanel.__onProject: the user picks a project
OnProject(k) ==
    /\ mainPc = "idle"
    /\ k \in 1 .. Len(projItems)
    /\ ShowProject(projItems[k])
    /\ lastOp' = [op |-> "onProject"]
    /\ UNCHANGED <<ctorVars, sessVars, filtVars, connVars, downVars>>

Next ==
    \/ \E h \in HostInputs, c \in CredInputs : StartSession(h, c)
    \/ EndSession
    \/ OnConnectEnd
    \/ OnConnectStart
    \/ \E h \in HostInputs : OnHost(h)
    \/ \E c \in CredInputs : TypeCredentials(c)
    \/ \E a \in 1 .. MaxAttempts : ThreadConnect(a)
    \/ \E a \in 1 .. MaxAttempts : ThreadPost(a)
    \/ UserCancel
    \/ DialogReturn
    \/ \E cb \in pending : Deliver(cb)

Spec == Init /\ [][Next]_vars

\* the panels that were given known hosts and known accounts
InitKnown ==
    /\ Init
    /\ ctorHosts # NotGiven
    /\ ctorAccounts # NotGiven

SpecKnown == InitKnown /\ [][Next]_vars

(***************************************************************************)
(* The tree browser of a connected panel.                                  *)
(***************************************************************************)
\* the direct children of item i, in the order they were appended
RECURSIVE ChildrenFrom(_, _, _)
ChildrenFrom(its, i, j) ==
    IF j > Len(its) THEN <<>>
    ELSE (IF its[j].parent = i THEN <<j>> ELSE <<>>)
         \o ChildrenFrom(its, i, j + 1)

\* the items at and under item i in the order of the tree control: i, then
\* the subtree of each child in turn; Flatten works through a list of roots
RECURSIVE Flatten(_, _)
Flatten(its, roots) ==
    IF roots = <<>> THEN <<>>
    ELSE <<Head(roots)>>
         \o Flatten(its, ChildrenFrom(its, Head(roots), 1))
         \o Flatten(its, Tail(roots))

\* browser.GetSelections(): the selected items, in the order of the tree
RECURSIVE KeepSelected(_, _)
KeepSelected(order, sel) ==
    IF order = <<>> THEN <<>>
    ELSE (IF Head(order) \in sel THEN <<Head(order)>> ELSE <<>>)
         \o KeepSelected(Tail(order), sel)

GetSelections(its, sel) ==
    IF its = <<>> THEN <<>> ELSE KeepSelected(Flatten(its, <<1>>), sel)

\* the test of the loop of GetSelectedFiles
IsFileLevelAny(level) == TRUE

IsFileLevel(level) == level = "file"

\* the loop of GetSelectedFiles over the items from k on
RECURSIVE CollectFiles(_, _, _, _)
CollectFiles(its, selItems, k, files) ==
    IF k > Len(selItems) THEN files
    ELSE LET obj   == its[selItems[k]].obj
             level == its[selItems[k]].level
         IN  CollectFiles(its, selItems, k + 1,
                          IF IsFileLevel(level) THEN Append(files, obj)
                          ELSE files)

\* XNATBrowserPanel.GetSelectedFiles
GetSelectedFiles(its, sel) ==
    CollectFiles(its, GetSelections(its, sel), 1, <<>>)

\* a call of GetSelectedFiles()
CallGetSelectedFiles ==
    /\ mainPc = "idle"
    /\ lastOp' = [op |-> "getSelectedFiles",
                  result |-> GetSelectedFiles(items, selection)]
    /\ UNCHANGED <<ctorVars, sessVars, treeVars, filtVars, connVars,
                   downVars>>

\* the tree whatever item is activated: its children are fetched again
ActivatedAlways(its, i) ==
    IF its[i].level = "file" THEN its
    ELSE ExpandTreeItem(Filters, its, its[i].obj, its[i].level, i).items

\* the tree after __onTreeActivate on item i
Activated(its, i) ==
    IF its[i].level = "file" \/ GetChildrenCount(its, i) > 0 THEN its
    ELSE ExpandTreeItem(Filters, its, its[i].obj, its[i].level, i).items

\* what __onTreeActivate got from __expandTreeItem for item i: whether it
\* called it, the mapping it returned and whether it raised
Expansion(its, i) ==
    IF its[i].level = "file" \/ GetChildrenCount(its, i) > 0
    THEN [ran |-> FALSE, childItems |-> {}, raised |-> FALSE]
    ELSE LET r == ExpandTreeItem(Filters, its, its[i].obj, its[i].level, i)
         IN  [ran |-> TRUE, childItems |-> r.childItems, raised |-> r.raised]

ActivatePostsForFolders(obj, level) ==
    IF level \in {"file", "resource"} THEN <<Uri(obj)>> ELSE <<>>

\* the XNATFileSelectEvents __onTreeActivate posts for an item
ActivatePosts(obj, level) ==
    IF level = "file" THEN <<Uri(obj)>> ELSE <<>>

\* XNATBrowserPanel.__onTreeActivate: the user double-clicks item i.  An
\* item whose expansion raises keeps what __expandTreeItem did before.
OnTreeActivate(i) ==
    /\ mainPc = "idle"
    /\ i \in 1 .. Len(items)
    /\ LET obj   == items[i].obj
           level == items[i].level
       IN  /\ lastOp' = [op |-> "activate", obj |-> obj, level |-> level,
                         posted |-> ActivatePosts(obj, level),
                         item |-> i, call |-> Expansion(items, i)]
           /\ items' = Activated(items, i)
    /\ UNCHANGED <<ctorVars, sessVars, selection, focused, info, filtVars,
                   connVars, downVars>>

\* the user clicks item i: it becomes the selection and the focus, and
\* __onTreeSelect shows it in the information grid
OnTreeSelect(i) ==
    /\ mainPc = "idle"
    /\ i \in 1 .. Len(items)
    /\ selection' = {i}
    /\ focused'   = i
    /\ info'      = OnTreeSelectInfo(items[i].obj)
    /\ lastOp'    = [op |-> "select"]
    /\ UNCHANGED <<ctorVars, sessVars, items, filtVars, connVars, downVars>>

\* the user adds item i to the selection (the tree has wx.TR_MULTIPLE)
OnTreeSelectMore(i) ==
    /\ mainPc = "idle"
    /\ i \in 1 .. Len(items)
    /\ i \notin selection
    /\ selection' = selection \cup {i}
    /\ focused'   = i
    /\ info'      = OnTreeSelectInfo(items[i].obj)
    /\ lastOp'    = [op |-> "select"]
    /\ UNCHANGED <<ctorVars, sessVars, items, filtVars, connVars, downVars>>

\* a panel that is connected to Central through the Connect button, with
\* the first project shown: the state after OnConnectStart, the connect
\* thread, its success callback and DialogReturn
ConnectedAs(tree, ftype) ==
    /\ ctorHosts     = NotGiven
    /\ ctorAccounts  = NotGiven
    /\ knownHosts    = InitKnownHosts(NotGiven)
    /\ knownAccounts = InitKnownAccounts(NotGiven)
    /\ session       = 1
    /\ hostField     = Host("https://", Central)
    /\ userField     = ""
    /\ passField     = ""
    /\ connectLabel  = "Disconnect"
    /\ statusColour  = "#00ff00"
    /\ projItems     = ProjectIds
    /\ selection     = {}
    /\ focused       = 0
    /\ info          = OnTreeSelectInfo(ProjectObj(ProjectIds[1]))
    /\ subjFilter    = <<>>
    /\ expFilter     = <<>>
    /\ filterType    = ftype
    /\ mainPc        = "idle"
    /\ cur           = 0
    /\ caller        = "none"
    /\ dlgCancel     = FALSE
    /\ threads       = [a \in 1 .. MaxAttempts |->
                           IF a = 1
                           THEN [NoThread EXCEPT !.pc = "done",
                                                 !.connected = TRUE,
                                                 !.target = TRUE]
                           ELSE NoThread]
    /\ cancelled     = [a \in 1 .. MaxAttempts |-> FALSE]
    /\ pending       = {}
    /\ nAttempts     = 1
    /\ serverOpen    = {1}
    /\ errShown      = {}
    /\ items         = tree

\* the same for a panel made without a filterType argument
ConnectedWith(tree) == ConnectedAs(tree, "regexp")

\* the tree __onProject makes for the first project
ProjectTree ==
    <<TreeItem(ProjectObj(ProjectIds[1]), "project", 0,
               unloadedFolderImageId, <<LABELS.project, ProjectIds[1]>>)>>

InitTree ==
    /\ ConnectedWith(ProjectTree)
    /\ InitDown
    /\ lastOp = [op |-> "startReturn", att |-> 1, result |-> TRUE,
                 finished |-> TRUE, connected |-> TRUE, target |-> TRUE]

NextTree ==
    \/ \E i \in 1 .. Len(items) : OnTreeActivate(i)
    \/ \E i \in 1 .. Len(items) : OnTreeSelect(i)
    \/ CallGetSelectedFiles
    \/ \E k \in 1 .. Len(ProjectIds) : OnProject(k)

SpecTree == InitTree /\ [][NextTree]_vars

(***************************************************************************)
(* Selecting in the tree: a connected panel whose tree has been opened     *)
(* down to the children of the experiments, by activating the items in the *)
(* order given.                                                            *)
(***************************************************************************)
\* the tree after activating the items of order one after the other
RECURSIVE ActivatedAll(_, _)
ActivatedAll(its, order) ==
    IF order = <<>> THEN its
    ELSE CHOOSE r \in {ActivatedAll(Activated(t, Head(order)), Tail(order)) :
                          t \in {its}} : TRUE

\* the project, subject s1, subject s2, resource r1, experiment e1 and
\* experiment e2
OpenOrder == <<1, 2, 3, 4, 5, 6>>

OpenedTree == ActivatedAll(ProjectTree, OpenOrder)

InitSelect ==
    /\ ConnectedWith(OpenedTree)
    /\ InitDown
    /\ lastOp = [op |-> "activate", obj |-> OpenedTree[6].obj,
                 level |-> OpenedTree[6].level, posted |-> <<>>]

NextSelect ==
    \/ \E i \in 1 .. Len(items) : OnTreeSelect(i)
    \/ \E i \in 1 .. Len(items) : OnTreeSelectMore(i)
    \/ CallGetSelectedFiles

SpecSelect == InitSelect /\ [][NextSelect]_vars

(***************************************************************************)
(* DownloadFile and XNATBrowserDialog.__onDownload.  A local path is the   *)
(* sequence of its components, and so is the id of a file on the server.   *)
(* While either runs, the main thread is inside it or inside one of its    *)
(* modal dialogs (mainPc = "download").                                    *)
(***************************************************************************)
\* rounds of the overwrite / new name / skip question a call goes up to
MaxPrompts == 2

\* os.path.join, os.path.basename, os.path.dirname
Join(dir, name) == dir \o <<name>>

BasenameFirst(path) == path[1]

Basename(path) == path[Len(path)]

Dirname(path) == SubSeq(path, 1, Len(path) - 1)

\* os.path.exists
Exists(path) == path \in fs

\* the directories the user picks in the wx.DirDialog
DirInputs == {<<"out">>}

\* the paths the user confirms in the wx.FileDialog: the one the dialog
\* starts at when a.nii is being downloaded to out, and another
ChooseInputs == {<<"out", "a.nii">>, <<"out", "c.nii">>}

\* the destinations of direct calls of DownloadFile
DestInputs == {<<"out", "a.nii">>}

\* the local paths that exist when the panel is made
FsInputs == {{}, {<<"out", "a.nii">>}}

\* the tree items a user of the download dialog selects: the files and
\* the resources
SelectInputs == {i \in 1 .. Len(items) :
                    items[i].level \in {"file", "resource"}}

\* raiseError of status.reportIfError in DownloadFile
raiseErrorTrue == TRUE

raiseError == FALSE

\* what DownloadFile does after the answer to its question
AfterChoiceSkipDownloads(choice) ==
    IF choice = "newdest" THEN "choose" ELSE "start"

AfterChoice(choice) ==
    IF choice = "overwrite" THEN "start"
    ELSE IF choice = "skip" THEN "returned"
    ELSE "choose"

\* what DownloadFile does after the wx.FileDialog was cancelled
AfterCancelDownloads == "start"

AfterCancel == "ask"

\* the variables DownloadFile and __onDownload leave alone
downFrame == <<ctorVars, sessVars, treeVars, filtVars, cur, caller, dlgCancel,
               threads, cancelled, pending, nAttempts, serverOpen, errShown>>

\* DownloadFile up to its test of os.path.exists(dest)
EnterDownloadFile(fobj, dest, showProgress, who) ==
    [pc           |-> IF Exists(dest) THEN "ask" ELSE "start",
     caller       |-> who,
     fobj         |-> fobj,
     orig         |-> dest,
     dest         |-> dest,
     showProgress |-> showProgress,
     existed      |-> Exists(dest),
     asked        |-> 0,
     choice       |-> "none",
     answer       |-> "none",
     opened       |-> <<>>,
     streamed     |-> FALSE,
     failed       |-> "none",
     reported     |-> FALSE,
     raised       |-> FALSE,
     progress     |-> "none"]

\* what a call of DownloadFile came to
Outcome(d) ==
    IF d.choice = "skip" THEN "skipped"
    ELSE IF d.failed # "none" THEN "failed"
    ELSE "written"

\* DownloadFile returns, or raises, to its caller: the main loop, or the
\* loop of __onDownload, which an exception ends
Leave(d) ==
    /\ dl' = [d EXCEPT !.pc = "returned"]
    /\ IF d.caller = "dialog"
       THEN /\ dd' = [dd EXCEPT !.results = Append(@, Outcome(d)),
                                !.pc = IF d.raised THEN "returned" ELSE @]
            /\ mainPc' = IF d.raised THEN "idle" ELSE mainPc
       ELSE /\ dd' = dd
            /\ mainPc' = "idle"

\* a direct call of DownloadFile for the file of tree item i
CallDownloadFile(i, dest, showProgress) ==
    /\ mainPc = "idle"
    /\ i \in 1 .. Len(items)
    /\ items[i].level = "file"
    /\ dl' = EnterDownloadFile(items[i].obj, dest, showProgress, "api")
    /\ dd' = NoDownload
    /\ mainPc' = "download"
    /\ lastOp' = [op |-> "downloadFile"]
    /\ UNCHANGED <<fs, downFrame>>

\* the user answers the wx.MessageDialog: Overwrite (wx.ID_YES), New
\* destination (wx.ID_NO) or Skip (wx.ID_CANCEL)
AnswerQuestion(choice) ==
    /\ dl.pc = "ask"
    /\ LET d == [dl EXCEPT !.asked = @ + 1, !.choice = choice,
                           !.answer = choice, !.pc = AfterChoice(choice)]
       IN  IF d.pc = "returned" THEN Leave(d)
           ELSE dl' = d /\ UNCHANGED <<dd, mainPc>>
    /\ UNCHANGED <<fs, lastOp, downFrame>>

\* the user cancels the wx.FileDialog
CancelFileDialog ==
    /\ dl.pc = "choose"
    /\ dl.asked < MaxPrompts
    /\ dl' = [dl EXCEPT !.answer = "cancel", !.pc = AfterCancel]
    /\ UNCHANGED <<fs, dd, mainPc, lastOp, downFrame>>

\* the user confirms a path in the wx.FileDialog (and, the path existing,
\* the question of wx.FD_OVERWRITE_PROMPT)
ConfirmFileDialog(path) ==
    /\ dl.pc = "choose"
    /\ dl' = [dl EXCEPT !.answer = "ok", !.dest = path, !.pc = "start"]
    /\ UNCHANGED <<fs, dd, mainPc, lastOp, downFrame>>

\* status.reportIfError: the error is shown; it is raised again only if
\* raiseError, and then dlg.Close() is not reached
Fail(d, what) ==
    LET e == [d EXCEPT !.failed = what, !.reported = TRUE,
                       !.raised = raiseError]
    IN  IF raiseError THEN Leave(e)
        ELSE dl' = [e EXCEPT !.pc = "close"] /\ UNCHANGED <<dd, mainPc>>

\* the progress dialog is made and shown, and dest is opened for writing,
\* which creates it, or fails
OpenDest(ok) ==
    /\ dl.pc = "start"
    /\ LET d == [dl EXCEPT !.progress = IF dl.showProgress THEN "shown"
                                        ELSE "none"]
       IN  IF ok
           THEN /\ dl' = [d EXCEPT !.opened = Append(@, dl.dest),
                                   !.pc = "stream"]
                /\ fs' = fs \cup {dl.dest}
                /\ UNCHANGED <<dd, mainPc>>
           ELSE /\ Fail(d, "open")
                /\ fs' = fs
    /\ UNCHANGED <<lastOp, downFrame>>

\* how fobj.download_stream ends: it returns, it raises, or the update
\* function it calls raises (there is one only with a progress dialog)
StreamOutcomes(showProgress) ==
    {"none", "stream"} \cup (IF showProgress THEN {"update"} ELSE {})

\* fobj.download_stream(f, update_func=update) and the end of the with
\* blocks
Stream(out) ==
    /\ dl.pc = "stream"
    /\ out \in StreamOutcomes(dl.showProgress)
    /\ LET d == [dl EXCEPT !.streamed = TRUE]
       IN  IF out = "none"
           THEN dl' = [d EXCEPT !.pc = "close"] /\ UNCHANGED <<dd, mainPc>>
           ELSE Fail(d, out)
    /\ UNCHANGED <<fs, lastOp, downFrame>>

\* the last lines of DownloadFile: dlg.Close() if showProgress
CloseProgress ==
    /\ dl.pc = "close"
    /\ Leave([dl EXCEPT !.progress = IF dl.showProgress THEN "closed"
                                     ELSE "none"])
    /\ UNCHANGED <<fs, lastOp, downFrame>>

\* XNATBrowserDialog.__onDownload: the Download button is pushed and the
\* wx.DirDialog is shown
OnDownload ==
    /\ mainPc = "idle"
    /\ dd' = [pc |-> "dir", answer |-> "none", destDir |-> <<>>,
              files |-> <<>>, k |-> 1, calls |-> <<>>, results |-> <<>>]
    /\ dl' = NoDownload
    /\ mainPc' = "download"
    /\ lastOp' = [op |-> "onDownload"]
    /\ UNCHANGED <<fs, downFrame>>

\* the user cancels the wx.DirDialog
CancelDirDialog ==
    /\ dd.pc = "dir"
    /\ dd' = [dd EXCEPT !.pc = "returned", !.answer = "cancel"]
    /\ mainPc' = "idle"
    /\ UNCHANGED <<fs, dl, lastOp, downFrame>>

\* the user confirms a directory in the wx.DirDialog
ConfirmDirDialog(dir) ==
    /\ dd.pc = "dir"
    /\ dd' = [dd EXCEPT !.pc = "loop", !.answer = "ok", !.destDir = dir,
                        !.files = GetSelectedFiles(items, selection)]
    /\ UNCHANGED <<fs, dl, mainPc, lastOp, downFrame>>

\* the for loop of __onDownload: the next file is downloaded, or, there
\* being none, the handler returns
LoopDownload ==
    /\ dd.pc = "loop"
    /\ dl.pc \in {"none", "returned"}
    /\ IF dd.k > Len(dd.files)
       THEN /\ dd' = [dd EXCEPT !.pc = "returned"]
            /\ mainPc' = "idle"
            /\ dl' = dl
       ELSE LET fobj == dd.files[dd.k]
                name == Basename(Objects[fobj].id)
                dest == Join(dd.destDir, name)
            IN  /\ dl' = EnterDownloadFile(fobj, dest, TRUE, "dialog")
                /\ dd' = [dd EXCEPT !.k = @ + 1,
                                    !.calls = Append(@, [fobj |-> fobj,
                                                         dest |-> dest])]
                /\ mainPc' = mainPc
    /\ UNCHANGED <<fs, lastOp, downFrame>>

InitDownload ==
    /\ ConnectedWith(OpenedTree)
    /\ fs \in FsInputs
    /\ dl = NoDownload
    /\ dd = NoDownload
    /\ lastOp = [op |-> "activate", obj |-> OpenedTree[6].obj,
                 level |-> OpenedTree[6].level, posted |-> <<>>]

NextDownload ==
    \/ \E i \in SelectInputs : OnTreeSelect(i)
    \/ \E i \in SelectInputs : OnTreeSelectMore(i)
    \/ \E i \in SelectInputs, dest \in DestInputs, showProgress \in BOOLEAN :
          CallDownloadFile(i, dest, showProgress)
    \/ \E choice \in {"overwrite", "newdest", "skip"} : AnswerQuestion(choice)
    \/ CancelFileDialog
    \/ \E path \in ChooseInputs : ConfirmFileDialog(path)
    \/ \E ok \in BOOLEAN : OpenDest(ok)
    \/ \E out \in {"none", "stream", "update"} : Stream(out)
    \/ CloseProgress
    \/ OnDownload
    \/ CancelDirDialog
    \/ \E dir \in DirInputs : ConfirmDirDialog(dir)
    \/ LoopDownload

SpecDownload == InitDownload /\ [][NextDownload]_vars

(***************************************************************************)
(* Refreshing the tree: __getTreeContents, __refreshTree and the handlers  *)
(* that call it.  The copy __getTreeContents makes of the tree is the      *)
(* sequence of items before the refresh: a node is an item of that         *)
(* sequence, its id is the id of the item's object, its children are the   *)
(* items that name it as parent.                                           *)
(***************************************************************************)
\* what the user types in the subject and in the experiment filter field:
\* nothing, a blank, and a pattern of the filter type: one that lets subA
\* through and not ctlB, one that lets pet through and not mr1
SubjectPatterns ==
    [regexp |-> {<<>>, <<" ">>, <<"^", "S", "U">>},
     glob   |-> {<<>>, <<" ">>, <<"s", "*">>}]

ExperimentPatterns ==
    [regexp |-> {<<>>, <<"E", ".">>},
     glob   |-> {<<>>, <<"p", "?", "t">>}]

\* obj is selObj, for the object given to refresh for tree item t.  The
\* root object is the one the tree item held before; the others come from
\* the listings again and are the objects met before only if the library
\* still holds them (kept).
IsSelObj(obj, sel, t, kept) == sel # 0 /\ obj = sel /\ (t = 1 \/ kept)

\* childItems.get(cid, (None, None)): the entries under the key cid
ChildItemsGet(childItems, cid) == {e \in childItems : e.id = cid}

\* browser.Expand(treeItem) / browser.Collapse(treeItem): an item without
\* children cannot be expanded
SetExpanded(its, t, expanded) ==
    [its EXCEPT ![t].expanded = expanded /\ GetChildrenCount(its, t) > 0]

\* refresh(treeItem, treeNode, obj) of __refreshTree, for tree item t, the
\* node n of the tree before, and obj.  st is the tree built so far, the
\* item SetFocusedItem was last called with (0: not called) and whether
\* __expandTreeItem raised.  RefreshChildren is the loop over childNodes
\* from the k-th on.
RECURSIVE RefreshNode(_, _, _, _, _, _, _, _)
RECURSIVE RefreshChildren(_, _, _, _, _, _, _, _)
RefreshNode(fil, old, sel, kept, st, t, n, obj) ==
    CHOOSE out \in
      {IF childNodes = <<>> THEN s1
       ELSE CHOOSE expanded \in
              {IF r.raised
               THEN [s1 EXCEPT !.items = r.items, !.raised = TRUE]
               ELSE CHOOSE done \in
                      {IF s2.raised THEN s2
                       ELSE [s2 EXCEPT
                               !.items = SetExpanded(s2.items, t,
                                                     old[n].expanded)] :
                          s2 \in {RefreshChildren(
                                      fil, old, sel, kept,
                                      [s1 EXCEPT !.items = r.items],
                                      r.childItems, childNodes, 1)}} : TRUE :
                  r \in {ExpandTreeItem(fil, s1.items, obj, old[n].level,
                                            t)}} :
              TRUE :
          childNodes \in {ChildrenFrom(old, n, 1)},
          s1 \in {IF IsSelObj(obj, sel, t, kept)
                  THEN [st EXCEPT !.focus = t] ELSE st}} : TRUE

RefreshChildren(fil, old, sel, kept, st, childItems, childNodes, k) ==
    IF k > Len(childNodes) \/ st.raised THEN st
    ELSE CHOOSE out \in
           {IF hit = {}
            THEN RefreshChildren(fil, old, sel, kept, st, childItems,
                                 childNodes, k + 1)
            ELSE CHOOSE next \in
                   {RefreshChildren(fil, old, sel, kept, s, childItems,
                                    childNodes, k + 1) :
                       s \in {RefreshNode(fil, old, sel, kept, st, e.item,
                                          childNodes[k], e.obj) :
                                 e \in hit}} : TRUE :
               hit \in {ChildItemsGet(childItems,
                                      Objects[old[childNodes[k]].obj].id)}} :
           TRUE

\* __refreshTree on the tree old with the focus on item foc (0: none), on
\* a panel whose filters are fil: the root item stays, its children are
\* deleted and made again
RefreshTree(fil, old, foc, kept) ==
    RefreshNode(fil, old, IF foc = 0 THEN 0 ELSE old[foc].obj, kept,
                [items  |-> <<[old[1] EXCEPT !.expanded = FALSE]>>,
                 focus  |-> 0,
                 raised |-> FALSE],
                1, 1, old[1].obj)

\* a call of __refreshTree when the filter fields hold subject and
\* experiment.  cleared: session.clearcache() was called before, and then
\* it is the library's business whether the listings give the objects they
\* gave before.  When the focused item was deleted and SetFocusedItem is
\* not called, the tree control has no focused item or gives the focus to
\* the root item.
DoRefreshTree(by, cleared, subject, experiment) ==
    /\ items # <<>>
    /\ subjFilter' = subject
    /\ expFilter' = experiment
    /\ \E kept \in (IF cleared THEN BOOLEAN ELSE {TRUE}) :
          \E r \in {RefreshTree([type       |-> filterType,
                                 subject    |-> subject,
                                 experiment |-> experiment],
                                items, focused, kept)} :
             /\ items' = r.items
             /\ \E f \in (IF r.focus # 0 THEN {r.focus}
                          ELSE IF focused = 0 THEN {0}
                          ELSE {0, 1}) : focused' = f
    /\ selection' = selection \cap {1}
    /\ lastOp' = [op |-> "refresh", by |-> by]
    /\ UNCHANGED <<ctorVars, sessVars, info, filterType, connVars, downVars>>

\* XNATBrowserPanel.__onRefresh
OnRefresh ==
    /\ mainPc = "idle"
    /\ session # NoSession
    /\ DoRefreshTree("button", TRUE, subjFilter, expFilter)

\* XNATBrowserPanel.__onSubjectFilter: the user presses enter in the
\* subject filter field, with p in it
OnSubjectFilter(p) ==
    /\ mainPc = "idle"
    /\ session # NoSession
    /\ DoRefreshTree("subject", FALSE, p, expFilter)

\* XNATBrowserPanel.__onExperimentFilter: the user presses enter in the
\* experiment filter field, with p in it
OnExperimentFilter(p) ==
    /\ mainPc = "idle"
    /\ session # NoSession
    /\ DoRefreshTree("experiment", FALSE, subjFilter, p)

\* the user expands or collapses item i in the tree control
ToggleExpanded(i) ==
    /\ mainPc = "idle"
    /\ i \in 1 .. Len(items)
    /\ GetChildrenCount(items, i) > 0
    /\ items' = [items EXCEPT ![i].expanded = ~ @]
    /\ lastOp' = [op |-> "toggle"]
    /\ UNCHANGED <<ctorVars, sessVars, selection, focused, info, filtVars,
                   connVars, downVars>>

\* the project, subject s1, subject s2, experiment e1 and scan 1 of e1
RefreshOpenOrder == <<1, 2, 3, 5, 7>>

\* a connected panel of either filter type whose tree has been opened by
\* activating the items of RefreshOpenOrder
InitRefresh ==
    /\ \E ftype \in {"regexp", "glob"} :
          ConnectedAs(ActivatedAll(ProjectTree, RefreshOpenOrder), ftype)
    /\ InitDown
    /\ lastOp = [op |-> "activate"]

NextRefresh ==
    \/ \E i \in 1 .. Len(items) : OnTreeSelect(i)
    \/ \E i \in 1 .. Len(items) : ToggleExpanded(i)
    \/ \E p \in SubjectPatterns[filterType] : OnSubjectFilter(p)
    \/ \E p \in ExperimentPatterns[filterType] : OnExperimentFilter(p)
    \/ OnRefresh

SpecRefresh == InitRefresh /\ [][NextRefresh]_vars

(***************************************************************************)
(* Claims about sessions, checked under Spec.                              *)
(***************************************************************************)

\* C1: a start against a host that cannot be reached, or with credentials
\* the server rejects, returns False and leaves no session active, whatever
\* came before it.
C1_FailedStartLeavesNoSession ==
    (lastOp.op = "startReturn" /\ ~ lastOp.target)
        => (lastOp.result = FALSE /\ session = NoSession)

\* C2: a start that was not cancelled returns True exactly when the
\* connection was made, and then a session is active.
C2_ResultIffConnected ==
    (lastOp.op = "startReturn" /\ lastOp.finished)
        => /\ lastOp.result = lastOp.connected
           /\ lastOp.result => session # NoSession

\* C3 (under SpecKnown): every host and every account given to the
\* constructor is still known, with the same value, after any starts and
\* ends of sessions.
C3_CtorKnownPreserved ==
    /\ Len(ctorHosts) = 1 =>
          \A i \in 1 .. Len(ctorHosts[1]) :
              \E j \in 1 .. Len(knownHosts) : knownHosts[j] = ctorHosts[1][i]
    /\ Len(ctorAccounts) = 1 =>
          \A h \in DOMAIN ctorAccounts[1] :
              /\ h \in DOMAIN knownAccounts
              /\ knownAccounts[h] = ctorAccounts[1][h]

\* C3 witness: accounts were given, one start succeeded, one failed, and
\* the session has been ended.
C3_Witness ==
    /\ Len(ctorAccounts) = 1
    /\ lastOp.op = "endSession"
    /\ \E a, b \in 1 .. MaxAttempts :
          /\ threads[a].pc = "done" /\ threads[a].connected
          /\ threads[b].pc = "done" /\ ~ threads[b].connected

\* C4: once the success callback of a login has run, the host is among the
\* known hosts and the known accounts hold the credentials used (None, None:
\* the servers take anonymous logins only); a failed login adds nothing.
C4_LoginRecorded ==
    /\ (lastOp.op = "callback" /\ lastOp.kind = "success") =>
          /\ \E j \in 1 .. Len(knownHosts) :
                knownHosts[j].name = lastOp.url.name
          /\ \E h \in DOMAIN knownAccounts :
                h.name = lastOp.url.name /\ knownAccounts[h] = <<None, None>>
    /\ (lastOp.op = "callback" /\ lastOp.kind = "failure") =>
          /\ Len(knownHosts) = Len(InitKnownHosts(ctorHosts))
          /\ DOMAIN knownAccounts = DOMAIN InitKnownAccounts(ctorAccounts)

(***************************************************************************)
(* Claims about the tree browser: C5 is checked under SpecSelect, C9 under  *)
(* SpecTree.                                                               *)
(***************************************************************************)

\* C5: GetSelectedFiles returns the object of every selected item of level
\* 'file' exactly once, and the object of no selected item of another level.
C5_SelectedFilesExact ==
    lastOp.op = "getSelectedFiles" =>
        /\ \A i \in selection :
              items[i].level = "file" =>
                 Cardinality({k \in 1 .. Len(lastOp.result) :
                                 lastOp.result[k] = items[i].obj}) = 1
        /\ \A i \in selection :
              items[i].level # "file" =>
                 \A k \in 1 .. Len(lastOp.result) :
                     lastOp.result[k] # items[i].obj
        /\ \A k \in 1 .. Len(lastOp.result) :
              \E i \in selection : items[i].obj = lastOp.result[k]

\* C5 witness: GetSelectedFiles was called with a file item and an item of
\* another level selected.
C5_Witness ==
    /\ lastOp.op = "getSelectedFiles"
    /\ \E i, j \in selection :
          items[i].level = "file" /\ items[j].level = "resource"

\* C9: activating a file item posts one XNATFileSelectEvent, with the uri
\* of the file, and leaves the tree as it was; activating an item of any
\* other level posts none.
C9_ActivateFilePostsEvent ==
    [][lastOp'.op = "activate" =>
          IF lastOp'.level = "file"
          THEN /\ lastOp'.posted = <<Uri(lastOp'.obj)>>
               /\ items' = items
          ELSE lastOp'.posted = <<>>]_vars

\* C9 witness: a file item has been activated.
C9_Witness ==
    lastOp.op = "activate" /\ lastOp.level = "file"

(***************************************************************************)
(* Claims about downloads, checked under SpecDownload.                     *)
(***************************************************************************)
\* what the claims about DownloadFile's question have in common: the user
\* is asked only when dest exists, and then before anything else happens;
\* after Skip nothing is opened and no download is started; after
\* Overwrite it is the original destination that is opened and written
C6_Common ==
    /\ dl.pc # "none" =>
          /\ (dl.asked > 0 \/ dl.pc \in {"ask", "choose"}) => dl.existed
          /\ (dl.existed /\ dl.pc \notin {"ask", "choose"}) => dl.asked > 0
    /\ (dl.pc = "returned" /\ dl.choice = "skip") =>
          /\ dl.opened = <<>>
          /\ ~ dl.streamed
          /\ dl.progress = "none"
    /\ (dl.pc = "returned" /\ dl.choice = "overwrite") =>
          /\ dl.dest = dl.orig
          /\ dl.failed = "open" => dl.opened = <<>>
          /\ dl.failed # "open" => dl.opened = <<dl.orig>> /\ dl.streamed

\* after a new name was confirmed it is the chosen path that is opened and
\* written
C6_ChosenWritten ==
    (dl.pc = "returned" /\ dl.choice = "newdest") =>
          /\ dl.answer = "ok"
          /\ dl.dest \in ChooseInputs
          /\ dl.failed = "open" => dl.opened = <<>>
          /\ dl.failed # "open" => dl.opened = <<dl.dest>> /\ dl.streamed

\* C6 as the claim has it: DownloadFile asks only when dest exists; Skip
\* opens nothing and starts no download; Overwrite writes the original
\* destination; a confirmed new name writes the chosen path and the
\* original destination is not written.
C6_OriginalNeverWritten ==
    /\ C6_Common
    /\ C6_ChosenWritten
    /\ (dl.pc = "returned" /\ dl.choice = "newdest") =>
          \A k \in 1 .. Len(dl.opened) : dl.opened[k] # dl.orig

\* C6, amended: as above, but the original destination is not written
\* only if the path the user confirmed is another one.
C6_OriginalWrittenOnlyIfChosen ==
    /\ C6_Common
    /\ C6_ChosenWritten
    /\ (dl.pc = "returned" /\ dl.choice = "newdest" /\ dl.dest # dl.orig) =>
          \A k \in 1 .. Len(dl.opened) : dl.opened[k] # dl.orig

\* C6 witness: a new name, different from the destination, was confirmed
\* and written.
C6_Witness ==
    /\ dl.pc = "returned"
    /\ dl.choice = "newdest"
    /\ dl.dest # dl.orig
    /\ dl.opened = <<dl.dest>>
    /\ dl.failed = "none"

\* C7: cancelling the file dialog shows the question again; the sequence
\* of prompts ends only with Overwrite, Skip or a confirmed new
\* destination; while it lasts nothing is opened, no download is started
\* and no progress dialog is made.
C7_PromptSequence ==
    [][/\ (dl.pc = "choose" /\ dl'.answer = "cancel") =>
             /\ dl'.pc = "ask"
             /\ dl'.dest = dl.dest
       /\ (dl.pc \in {"ask", "choose"} /\ dl'.pc \notin {"ask", "choose"}) =>
             \/ dl'.answer = "overwrite" /\ dl'.pc = "start"
             \/ dl'.answer = "skip" /\ dl'.pc = "returned"
             \/ dl'.answer = "ok" /\ dl'.pc = "start"
       /\ dl'.pc \in {"ask", "choose"} =>
             /\ dl'.opened = <<>>
             /\ ~ dl'.streamed
             /\ dl'.progress = "none"
             /\ fs' = fs]_vars

\* C7 witness: the question is shown again after the file dialog was
\* cancelled.
C7_Witness ==
    dl.pc = "ask" /\ dl.answer = "cancel" /\ dl.asked > 0

\* C8: DownloadFile never raises to its caller; a failure to open the
\* destination or to stream is reported; a progress dialog that was shown
\* is closed when DownloadFile returns, whether the download failed or not.
C8_ErrorsReportedDialogClosed ==
    dl.pc = "returned" =>
        /\ ~ dl.raised
        /\ dl.failed # "none" => dl.reported
        /\ dl.showProgress =>
              dl.progress = IF dl.choice = "skip" THEN "none" ELSE "closed"
        /\ ~ dl.showProgress => dl.progress = "none"

\* C8 witness: a download with a progress dialog failed while streaming.
C8_Witness ==
    /\ dl.pc = "returned"
    /\ dl.showProgress
    /\ dl.failed = "stream"

\* C10: cancelling the directory prompt downloads nothing; confirming a
\* directory calls DownloadFile once for every selected file, in the order
\* of GetSelectedFiles, with the directory joined with the last component
\* of the file id as destination, whatever became of the earlier files.
C10_DownloadEverySelectedFile ==
    [][/\ (dd.pc = "dir" /\ dd'.answer = "cancel") =>
             /\ dd'.pc = "returned"
             /\ dd'.calls = <<>>
             /\ dl' = dl
             /\ fs' = fs
       /\ (dd.pc = "loop" /\ dd'.pc = "returned") =>
             LET files == GetSelectedFiles(items, selection)
             IN  /\ Len(dd'.calls) = Len(files)
                 /\ Len(dd'.results) = Len(files)
                 /\ \A k \in 1 .. Len(files) :
                       LET id == Objects[files[k]].id
                       IN  /\ dd'.calls[k].fobj = files[k]
                           /\ dd'.calls[k].dest
                                 = dd'.destDir \o <<id[Len(id)]>>]_vars

\* C10 witness: the handler returned after a first file that was skipped
\* or failed and a second that was written.
C10_Witness ==
    /\ dd.pc = "returned"
    /\ dd.answer = "ok"
    /\ Len(dd.results) >= 2
    /\ dd.results[1] \in {"skipped", "failed"}
    /\ dd.results[2] = "written"

(***************************************************************************)
(* Claims about the expansion of tree items, checked under SpecTree.       *)
(***************************************************************************)
\* C11: when __expandTreeItem runs for an item of a level other than
\* 'file' it does not raise, and it appends, under that item, exactly one
\* tree item for every child object of a level in the table that is not
\* filtered out, levels in table order and objects in listing order, each
\* with the object and its level; the mapping returned has one entry for
\* each of them, from its id to the object and the new tree item.
C11_ExpandAddsEveryChild ==
    [][(lastOp'.op = "activate" /\ lastOp'.call.ran) =>
          LET i    == lastOp'.item
              obj  == lastOp'.obj
              tbl  == XNAT_HIERARCHY[lastOp'.level]
              pos(l) == CHOOSE p \in 1 .. Len(tbl) : Singular[tbl[p]] = l
              kids == {c \in ObjIds :
                          /\ Objects[c].parent = obj
                          /\ \E p \in 1 .. Len(tbl) :
                                Singular[tbl[p]] = Objects[c].level
                          /\ ~ FilterItem(Filters, Objects[c].level,
                                          Objects[c].name)}
              new  == (Len(items) + 1) .. Len(items')
          IN  /\ ~ lastOp'.call.raised
              /\ Cardinality(new) = Cardinality(kids)
              /\ Cardinality(lastOp'.call.childItems) = Cardinality(kids)
              /\ \A c \in kids : \E j \in new :
                    /\ items'[j].obj = c
                    /\ items'[j].level = Objects[c].level
                    /\ items'[j].parent = i
                    /\ \E e \in lastOp'.call.childItems :
                          e.obj = c /\ e.item = j /\ e.id = Objects[c].id
              /\ \A j, k \in new :
                    j < k =>
                       \/ pos(items'[j].level) < pos(items'[k].level)
                       \/ /\ items'[j].level = items'[k].level
                          /\ items'[j].obj < items'[k].obj]_vars

\* C12: an activation fetches children only for an item of a level other
\* than 'file' that has none; the activation of an item that has children
\* leaves the tree as it is; no object is twice under the same parent.
C12_ChildrenLoadedOnce ==
    [][/\ (lastOp'.op = "activate" /\ lastOp'.call.ran) =>
             /\ lastOp'.level # "file"
             /\ GetChildrenCount(items, lastOp'.item) = 0
       /\ (lastOp'.op = "activate" /\ ~ lastOp'.call.ran) => items' = items
       /\ \A j, k \in 1 .. Len(items') :
             (j # k /\ items'[j].parent = items'[k].parent) =>
                items'[j].obj # items'[k].obj]_vars

\* C12 witness: an item that has children was activated again.
C12_Witness ==
    /\ lastOp.op = "activate"
    /\ lastOp.level # "file"
    /\ ~ lastOp.call.ran
    /\ GetChildrenCount(items, lastOp.item) > 0

(***************************************************************************)
(* Claims about refreshing the tree, checked under SpecRefresh.            *)
(***************************************************************************)
\* the levels and objects on the way from the root item to item i
RECURSIVE PathOf(_, _)
PathOf(its, i) ==
    IF its[i].parent = 0 THEN <<<<its[i].level, its[i].obj>>>>
    ELSE Append(PathOf(its, its[i].parent), <<its[i].level, its[i].obj>>)

\* C13: a refresh with the filter values unchanged restores the tree: every
\* item that was in the tree before, identified by the levels and objects on
\* its path from the root, is in the tree after, and every item that had
\* children is expanded after if and only if it was before
C13_RefreshRestoresTree ==
    [][(lastOp'.op = "refresh" /\ subjFilter' = subjFilter
                               /\ expFilter' = expFilter) =>
          \A i \in 1 .. Len(items) :
             \E j \in 1 .. Len(items') :
                /\ PathOf(items', j) = PathOf(items, i)
                /\ GetChildrenCount(items, i) > 0 =>
                      items'[j].expanded = items[i].expanded]_vars

\* C14: a refresh keeps the focus: when the focused item is in the tree
\* after the refresh, the item on the same path is the focused item after
C14_RefreshKeepsFocus ==
    [][(/\ lastOp'.op = "refresh"
        /\ focused # 0
        /\ \E j \in 1 .. Len(items') :
              PathOf(items', j) = PathOf(items, focused)) =>
          /\ focused' # 0
          /\ PathOf(items', focused') = PathOf(items, focused)]_vars

\* C15: right after a refresh the children shown under every item that has
\* children are the children in its listings, in all but the subjects
\* that fail a subject pattern that is not blank and the experiments that
\* fail an experiment pattern that is not blank
C15_RefreshAppliesFilters ==
    [][lastOp'.op = "refresh" =>
          \A j \in 1 .. Len(items') :
             GetChildrenCount(items', j) > 0 =>
                \A c \in ObjIds :
                   LET level   == Objects[c].level
                       name    == Objects[c].name
                       pattern == IF level = "subject" THEN subjFilter'
                                  ELSE IF level = "experiment" THEN expFilter'
                                  ELSE <<>>
                       blank   == \A k \in 1 .. Len(pattern) :
                                     pattern[k] = " "
                       matches == IF filterType = "regexp"
                                  THEN ReSearch(pattern, name)
                                  ELSE FnMatch(name, pattern)
                       shown   == \E k \in 1 .. Len(items') :
                                     /\ items'[k].parent = j
                                     /\ items'[k].obj = c
                                     /\ items'[k].level = level
                   IN  Objects[c].parent = items'[j].obj =>
                          (shown <=> (blank \/ matches))]_vars

\* a refresh has left a subject and an experiment out, and kept others
C15_Witness ==
    /\ lastOp.op = "refresh"
    /\ ~ StripIsEmpty(subjFilter)
    /\ ~ StripIsEmpty(expFilter)
    /\ \E j \in 1 .. Len(items) : items[j].level = "subject"
    /\ \E c \in ObjIds :
          /\ Objects[c].level = "subject"
          /\ \A j \in 1 .. Len(items) : items[j].obj # c
    /\ \E j \in 1 .. Len(items) :
          /\ items[j].level = "subject"
          /\ GetChildrenCount(items, j) = 0
          /\ \E c \in ObjIds : Objects[c].parent = items[j].obj

(***************************************************************************)
(* Claims about the course of a connection attempt and about the end of a  *)
(* session: C16 and C18 are checked under SpecKnown, C17 and C19 under     *)
(* Spec.                                                                   *)
(***************************************************************************)
\* what holds of a connect thread a while it runs: its candidates are one
\* URL with its protocol, or https and then http of the same host; every
\* candidate before the one it is at has failed; it posts success only
\* with the candidate that took the login, and failure only when the last
\* candidate has failed as well
C16_ThreadOK(a) ==
    LET t     == threads[a]
        ok(i) == XnatConnectOK(t.hosts[i], t.user, t.password)
    IN  t.pc \in {"connect", "post"} =>
           /\ \/ /\ Len(t.hosts) = 1
                 /\ t.hosts[1].proto \in {"http://", "https://"}
              \/ /\ Len(t.hosts) = 2
                 /\ t.hosts[1].proto = "https://"
                 /\ t.hosts[2].proto = "http://"
                 /\ t.hosts[1].name = t.hosts[2].name
           /\ t.idx \in 1 .. Len(t.hosts)
           /\ \A i \in 1 .. t.idx - 1 : ~ ok(i)
           /\ (t.pc = "post" /\ t.post = "success") =>
                 ok(t.idx) /\ t.url = t.hosts[t.idx]
           /\ (t.pc = "post" /\ t.post = "failure") =>
                 ~ ok(t.idx) /\ t.idx = Len(t.hosts)

\* C16: a host without protocol is tried over https and then, only if that
\* failed, over http, a host with a protocol is tried as it is; the first
\* candidate that takes the login ends the sequence and is written to the
\* host field; the error is reported at most once for an attempt, and only
\* when no candidate took the login
C16_CandidateSequence ==
    /\ [](\A a \in 1 .. MaxAttempts : C16_ThreadOK(a))
    /\ [][/\ nAttempts' # nAttempts =>
                LET t == threads'[nAttempts']
                IN  /\ t.pc = "connect"
                    /\ t.idx = 1
                    /\ caller' = "button" =>
                          t.hosts =
                             IF hostField.proto \in {"http://", "https://"}
                             THEN <<hostField>>
                             ELSE <<Host("https://", hostField.name),
                                    Host("http://", hostField.name)>>
          /\ \A a \in 1 .. MaxAttempts :
                LET t == threads[a]
                IN  (/\ t.pc = "connect"
                     /\ threads'[a] # t
                     /\ XnatConnectOK(t.hosts[t.idx], t.user, t.password)) =>
                       threads'[a].pc # "connect"
          /\ \A cb \in pending \ pending' :
                IF cb.kind = "success"
                THEN hostField' = cb.url /\ errShown' = errShown
                ELSE /\ cb.att \notin errShown
                     /\ errShown' = errShown \cup {cb.att}
                     /\ ~ threads[cb.att].target
          /\ errShown' # errShown => pending' # pending]_vars

\* C16 witness: https failed, http took the login, and the http URL is in
\* the host field
C16_Witness ==
    /\ lastOp.op = "callback"
    /\ lastOp.kind = "success"
    /\ lastOp.url = Host("http://", Legacy)
    /\ hostField = lastOp.url

\* C17: at most one session is open at any time; __startSession ends the
\* active session before it connects, and the Connect button pressed while
\* a session is active ends that session and starts no attempt
C17_AtMostOneSession ==
    /\ [](Cardinality(serverOpen) <= 1)
    /\ [][/\ (nAttempts' # nAttempts /\ session # NoSession) =>
                session' = NoSession
          /\ (lastOp'.op = "onConnect.end" /\ session # NoSession) =>
                /\ session' = NoSession
                /\ nAttempts' = nAttempts
                /\ mainPc' = "idle"]_vars

\* C18: after __endSession the panel is disconnected: no session, the
\* button labelled Connect, the project list, the tree and the
\* information grid empty
C18_EndLeavesDisconnected ==
    lastOp.op \in {"endSession", "onConnect.end"} =>
       /\ session = NoSession
       /\ connectLabel = "Connect"
       /\ statusColour = "#ff0000"
       /\ projItems = <<>>
       /\ items = <<>>
       /\ selection = {}
       /\ info = 0

\* C18 witness: the Connect button has ended the session of the first
\* attempt, whose disconnect raised: the server still has it open
C18_Witness ==
    /\ lastOp.op = "onConnect.end"
    /\ nAttempts = 1
    /\ pending = {}
    /\ serverOpen = {1}

\* C19: an attempt whose connecting dialog was cancelled has no effect:
\* its session is not the active one and its error is not shown
C19_CancelledHasNoEffect ==
    \A a \in 1 .. MaxAttempts :
       cancelled[a] => session # a /\ a \notin errShown

====
